---- MODULE Spec2Model ----
(***************************************************************************)
(* Model of the shaker handshake store: src/src/db.rs (Database),          *)
(* src/src/api.rs (HTTP handlers) and src/src/main.rs (legacy import).     *)
(*                                                                         *)
(* The two SQLite tables are the sequences `users` and `handshakes`; a     *)
(* row's id is its rowid, i.e. its position, since no row is ever deleted. *)
(* Option<T> is modelled as a sequence of length 0 (None) or 1 (Some).     *)
(* An SQL NULL column is None; NULL = ?1 is never true.                    *)
(***************************************************************************)
EXTENDS Integers, Sequences, FiniteSets, TLC

\* ---------------------------------------------------------------- bounds
\* Number of API calls / import runs in one behaviour.
MaxCalls == 3
\* Longest legacy import file, in lines.
MaxImportLines == 2

\* Number of calls in one behaviour in which store statements may fail.
MaxFailCalls == 2
\* Number of legacy import runs in one behaviour that follows the loop.
MaxImportRuns == 1
\* Number of record_handshake calls in one behaviour of concurrent service.
MaxConcCalls == 2

\* ---------------------------------------------------------------- inputs
\* Resonite IDs a request may carry; "" is what an empty form field gives.
ResoniteIds == {"", "U-1", "U-2"}
\* Resonite usernames a request or an import line may carry.
ResoniteNames == {"Alice", "Bob"}
\* World names a request may carry.
WorldNames == {"", "Hub"}

\* The handlers that serve requests at the same time: two requests overlap.
Handlers == {1, 2}
\* World names the overlapping requests carry; the name plays no part in
\* resolving the user.
ConcWorldNames == {"Hub"}

\* ---------------------------------------------------------------- Option
None == <<>>
Some(x) == <<x>>
IsSome(o) == o # None
IsNone(o) == o = None
Unwrap(o) == o[1]

Range(s) == {s[i] : i \in DOMAIN s}

VARIABLES
    users,       \* table `users`: sequence of User rows
    handshakes,  \* table `handshakes`: sequence of Handshake rows
    log,         \* the calls made so far, in order
    pre,         \* the two tables as they were before the last call
    ret,         \* what the last call returned
    importer,    \* the legacy import loop: its file and its position in it
    inflight     \* the record_handshake calls being served concurrently

vars == <<users, handshakes, log, pre, ret, importer, inflight>>

\* ------------------------------------------------------------ the store
\* Value the store gives created_at on insert: a logical clock that
\* advances with every inserted row.
CurrentTimestamp(us, hs) == Len(us) + Len(hs) + 1

\* struct User
User(id, resonite_id, resonite_name, created_at) ==
    [id |-> id, resonite_id |-> resonite_id,
     resonite_name |-> resonite_name, created_at |-> created_at]

\* struct Handshake
Handshake(id, user_id, world_name, created_at) ==
    [id |-> id, user_id |-> user_id,
     world_name |-> world_name, created_at |-> created_at]

\* struct UserResoniteInfo
UserResoniteInfo(id, name) == [id |-> id, name |-> name]

\* struct HandshakeContext
HandshakeContext(id, name, world) == [id |-> id, name |-> name, world |-> world]

\* fetch_optional: the outcomes of reading at most one row of a result set.
\* The queries carry no ORDER BY, so any matching row may be the one read.
FetchOptional(rows) == IF rows = {} THEN {None} ELSE {Some(r) : r \in rows}

\* Database::get_user: SELECT * FROM users WHERE id = ?1
GetUser(us, id) == FetchOptional({u \in Range(us) : u.id = id})

\* Variant of get_user_by_resonite_id whose query compares the wrong column.
GetUserByResoniteId_WrongColumn(us, id) ==
    FetchOptional({u \in Range(us) : u.resonite_name = id})

\* Database::get_user_by_resonite_id:
\* SELECT * FROM users WHERE resonite_id = ?1   (id is a String, never NULL)
GetUserByResoniteId(us, id) ==
    FetchOptional({u \in Range(us) : u.resonite_id = Some(id)})

\* Database::get_user_by_resonite_name:
\* SELECT * FROM users WHERE resonite_name = ?1
GetUserByResoniteName(us, name) ==
    FetchOptional({u \in Range(us) : u.resonite_name = name})

\* Variant of get_user_by_resonite_info that tries the name before the ID.
GetUserByResoniteInfo_NameFirst(us, info) ==
    UNION { IF IsSome(byName) THEN {byName}
            ELSE GetUserByResoniteId(us, info.id)
            : byName \in GetUserByResoniteName(us, info.name) }

\* Variant of get_user_by_resonite_info without the fallback to the name.
GetUserByResoniteInfo_IdOnly(us, info) == GetUserByResoniteId(us, info.id)

\* Database::get_user_by_resonite_info: by ID, and by name if that finds none.
GetUserByResoniteInfo(us, info) ==
    UNION { IF IsSome(byId) THEN {byId}
            ELSE GetUserByResoniteName(us, info.name)
            : byId \in GetUserByResoniteId(us, info.id) }

\* Variant of the user insert that skips the row when a user with that
\* resonite_id is stored (a unique column with INSERT OR IGNORE).
InsertUser_UniqueId(us, hs, resonite_id, resonite_name) ==
    IF \E i \in DOMAIN us : us[i].resonite_id = resonite_id
    THEN us
    ELSE Append(us, User(Len(us) + 1, resonite_id, resonite_name,
                         CurrentTimestamp(us, hs)))

\* INSERT INTO users (resonite_id, resonite_name) VALUES (?1, ?2)
InsertUser(us, hs, resonite_id, resonite_name) ==
    Append(us, User(Len(us) + 1, resonite_id, resonite_name,
                    CurrentTimestamp(us, hs)))

\* Variant of update_user whose statement also resets created_at.
UpdateUser_Touch(us, user) ==
    [i \in DOMAIN us |->
        IF us[i].id = user.id
        THEN [us[i] EXCEPT !.resonite_id = user.resonite_id,
                           !.resonite_name = user.resonite_name,
                           !.created_at = us[i].created_at + 1]
        ELSE us[i]]

\* Database::update_user:
\* UPDATE users SET resonite_id = ?2, resonite_name = ?3 WHERE id = ?1
UpdateUser(us, user) ==
    [i \in DOMAIN us |->
        IF us[i].id = user.id
        THEN [us[i] EXCEPT !.resonite_id = user.resonite_id,
                           !.resonite_name = user.resonite_name]
        ELSE us[i]]

\* Variant of the handshake insert that binds the new handshake's own id
\* where the user's id belongs.
InsertHandshake_OwnId(us, hs, user_id, world_name) ==
    Append(hs, Handshake(Len(hs) + 1, Len(hs) + 1, world_name,
                         CurrentTimestamp(us, hs)))

\* Variant of the handshake insert that leaves world_name unset.
InsertHandshake_NoWorld(us, hs, user_id, world_name) ==
    Append(hs, Handshake(Len(hs) + 1, user_id, None,
                         CurrentTimestamp(us, hs)))

\* INSERT INTO handshakes (user_id, world_name) VALUES (?1, ?2)
InsertHandshake(us, hs, user_id, world_name) ==
    Append(hs, Handshake(Len(hs) + 1, user_id, world_name,
                         CurrentTimestamp(us, hs)))

\* Database::get_handshake: SELECT * FROM handshakes WHERE id = ?1
GetHandshake(hs, id) == FetchOptional({h \in Range(hs) : h.id = id})

\* Database::count_users
CountUsers(us) == Len(us)

\* Database::count_handshakes
CountHandshakes(hs) == Len(hs)

\* Variant of count_user_handshakes whose query lost its WHERE clause.
CountUserHandshakes_NoWhere(hs, id) == Len(hs)

\* Database::count_user_handshakes
CountUserHandshakes(hs, id) == Cardinality({i \in DOMAIN hs : hs[i].user_id = id})

\* ------------------------------------------------- Database::create_handshake
\* Variant of the rewrite condition that ignores a changed name.
NeedsUpdate_IdOnly(user, info) == IsNone(user.resonite_id)

\* Variant of the rewrite condition that rewrites every matched row.
NeedsUpdate_Always(user, info) == TRUE

\* db.rs:162  the condition under which a matched user row is rewritten
NeedsUpdate(user, info) ==
    IsNone(user.resonite_id) \/ user.resonite_name # info.name

\* Variant of the rewrite that sets the ID and forgets the name.
WithResoniteInfo_KeepName(user, info) ==
    [user EXCEPT !.resonite_id = Some(info.id)]

\* db.rs:163-164  the in-memory user after the rewrite
WithResoniteInfo(user, info) ==
    [user EXCEPT !.resonite_id = Some(info.id), !.resonite_name = info.name]

\* Variant of create_user whose insert leaves resonite_id unset.
CreateUser_NoResoniteId(us, hs, info) ==
    LET us1 == InsertUser(us, hs, None, info.name)
        id  == Len(us1)
    IN  { [users |-> us1, user |-> Unwrap(got)] :
            got \in {g \in GetUser(us1, id) : IsSome(g)} }

\* Database::create_user: insert, then re-read the row by last_insert_rowid.
\* The outcomes are [users, user] pairs; a failed re-read is an Err and
\* yields no outcome.
CreateUser(us, hs, info) ==
    LET us1 == InsertUser(us, hs, Some(info.id), info.name)
        id  == Len(us1)
    IN  { [users |-> us1, user |-> Unwrap(got)] :
            got \in {g \in GetUser(us1, id) : IsSome(g)} }

\* db.rs:160-170  retrieve the user and update it, or create it.
\* The outcomes are [users, user] pairs.
ResolveUser(us, hs, info) ==
    UNION { IF IsSome(found)
            THEN LET user == Unwrap(found)
                 IN  IF NeedsUpdate(user, info)
                     THEN {[users |-> UpdateUser(us, WithResoniteInfo(user, info)),
                            user  |-> WithResoniteInfo(user, info)]}
                     ELSE {[users |-> us, user |-> user]}
            ELSE CreateUser(us, hs, info)
            : found \in GetUserByResoniteInfo(us, info) }

\* Database::create_handshake as a whole: the outcomes of one successful
\* call, as [users, handshakes, created] records.
CreateHandshake(us, hs, shake) ==
    LET info == UserResoniteInfo(shake.id, shake.name)
    IN  UNION { LET hs1 == InsertHandshake(r.users, hs, r.user.id, Some(shake.world))
                    id  == Len(hs1)
                IN  { [users |-> r.users, handshakes |-> hs1, created |-> Unwrap(got)] :
                        got \in {g \in GetHandshake(hs1, id) : IsSome(g)} }
                : r \in ResolveUser(us, hs, info) }

\* ------------------------------------------------------------ legacy import
\* Database::create_legacy_user: reuse the user of that name, or insert one
\* with no Resonite ID.  Outcomes are [users, user] pairs.
CreateLegacyUser(us, hs, name) ==
    UNION { IF IsSome(found)
            THEN {[users |-> us, user |-> Unwrap(found)]}
            ELSE LET us1 == InsertUser(us, hs, None, name)
                 IN  {[users |-> us1, user |-> us1[Len(us1)]]}
            : found \in GetUserByResoniteName(us, name) }

\* Database::create_legacy_handshake: a handshake with no world.
CreateLegacyHandshake(us, hs, user_id) == InsertHandshake(us, hs, user_id, None)

\* main.rs import: every line of the file, in order.
\* Outcomes are [users, handshakes] pairs.
RECURSIVE Import(_, _, _)
Import(us, hs, lines) ==
    IF lines = <<>>
    THEN {[users |-> us, handshakes |-> hs]}
    ELSE UNION { Import(r.users,
                        CreateLegacyHandshake(r.users, hs, r.user.id),
                        Tail(lines))
                 : r \in CreateLegacyUser(us, hs, Head(lines)) }

\* ------------------------------------------- api.rs count_handshakes_for_user
\* Outcomes are the handler's results: NotFound, or Ok with the count.
NotFound == [status |-> "not_found", handshake |-> None, count |-> None]
OkCount(n) == [status |-> "ok", handshake |-> None, count |-> Some(n)]
OkHandshake(h) == [status |-> "ok", handshake |-> Some(h), count |-> None]
OkUnit == [status |-> "ok", handshake |-> None, count |-> None]

CountHandshakesForUser(us, hs, info) ==
    { IF IsNone(found) THEN NotFound
      ELSE OkCount(CountUserHandshakes(hs, Unwrap(found).id))
      : found \in GetUserByResoniteInfo(us, info) }

\* ------------------------------------------------------------------ actions
Call(op, id, name, world, lines) ==
    [op |-> op, id |-> id, name |-> name, world |-> world, lines |-> lines]

\* The import loop before a run.
ImporterIdle == [pc |-> "idle", lines |-> <<>>, i |-> 0, outcomes |-> <<>>]

\* A slot for a concurrent call that holds none.
\* pc is the store statement the call issues next, branch the arm of
\* db.rs:161-170 it took, user its local `user`, rowid the last
\* last_insert_rowid() it received, created the Handshake it returned.
CallIdle ==
    [pc |-> "idle", shake |-> HandshakeContext("", "", ""), branch |-> "",
     user |-> None, rowid |-> 0, created |-> None]

Init ==
    /\ users = <<>>
    /\ handshakes = <<>>
    /\ log = <<>>
    /\ pre = [users |-> <<>>, handshakes |-> <<>>]
    /\ ret = [status |-> "none", handshake |-> None, count |-> None]
    /\ importer = ImporterIdle
    /\ inflight = [c \in Handlers |-> CallIdle]

\* POST /handshakes
RecordHandshake ==
    /\ Len(log) < MaxCalls
    /\ \E id \in ResoniteIds, name \in ResoniteNames, world \in WorldNames :
         \E out \in CreateHandshake(users, handshakes, HandshakeContext(id, name, world)) :
            /\ users' = out.users
            /\ handshakes' = out.handshakes
            /\ ret' = OkHandshake(out.created)
            /\ log' = Append(log, Call("create_handshake", id, name, world, <<>>))
            /\ pre' = [users |-> users, handshakes |-> handshakes]
            /\ UNCHANGED <<importer, inflight>>

\* GET /handshakes/count/user
QueryUserHandshakes ==
    /\ Len(log) < MaxCalls
    /\ \E id \in ResoniteIds, name \in ResoniteNames :
         \E out \in CountHandshakesForUser(users, handshakes, UserResoniteInfo(id, name)) :
            /\ ret' = out
            /\ log' = Append(log, Call("count_handshakes_for_user", id, name, "", <<>>))
            /\ pre' = [users |-> users, handshakes |-> handshakes]
            /\ UNCHANGED <<importer, inflight>>
            /\ UNCHANGED <<users, handshakes>>

ImportFiles ==
    UNION { [1..n -> ResoniteNames] : n \in 1..MaxImportLines }

\* shaker --import <file>
LegacyImport ==
    /\ Len(log) < MaxCalls
    /\ \E lines \in ImportFiles :
         \E out \in Import(users, handshakes, lines) :
            /\ users' = out.users
            /\ handshakes' = out.handshakes
            /\ ret' = OkUnit
            /\ log' = Append(log, Call("import", "", "", "", lines))
            /\ pre' = [users |-> users, handshakes |-> handshakes]
            /\ UNCHANGED <<importer, inflight>>

Next == RecordHandshake \/ QueryUserHandshakes \/ LegacyImport

Spec == Init /\ [][Next]_vars

\* ------------------------------------------------- failing store statements
\* The store statements of Database::create_handshake, in the order the
\* call can reach them.
Statements ==
    {"get_user_by_resonite_id", "get_user_by_resonite_name", "update_user",
     "insert_user", "get_user", "insert_handshake", "get_handshake"}

\* The handler's result when a statement returned an error (api.rs
\* Error::Internal), with the statement that failed.
Internal(stmt) ==
    [status |-> "error", handshake |-> None, count |-> None, stmt |-> stmt]

\* db.rs:172-186 when `stmt` fails: the tables a call leaves behind whose
\* user is resolved (tables us1) and whose handshake statements remain.
\* A failing statement has no effect of its own; `?` returns at once.
HandshakeFailing(us1, hs, user, shake, stmt) ==
    IF stmt = "insert_handshake"
    THEN {[users |-> us1, handshakes |-> hs]}
    ELSE IF stmt = "get_handshake"
    THEN {[users |-> us1,
           handshakes |-> InsertHandshake(us1, hs, user.id, Some(shake.world))]}
    ELSE {}

\* db.rs:160-170 and create_user when `stmt` fails, for a lookup result
\* `found`; continues into the handshake statements otherwise.
ResolveFailing(us, hs, found, shake, stmt) ==
    LET info == UserResoniteInfo(shake.id, shake.name)
    IN  IF IsSome(found)
        THEN LET user == Unwrap(found)
             IN  IF NeedsUpdate(user, info)
                 THEN IF stmt = "update_user"
                      THEN {[users |-> us, handshakes |-> hs]}
                      ELSE HandshakeFailing(
                               UpdateUser(us, WithResoniteInfo(user, info)), hs,
                               WithResoniteInfo(user, info), shake, stmt)
                 ELSE HandshakeFailing(us, hs, user, shake, stmt)
        ELSE IF stmt = "insert_user"
             THEN {[users |-> us, handshakes |-> hs]}
             ELSE LET us1 == InsertUser(us, hs, Some(info.id), info.name)
                  IN  IF stmt = "get_user"
                      THEN {[users |-> us1, handshakes |-> hs]}
                      ELSE UNION { HandshakeFailing(us1, hs, Unwrap(got), shake, stmt)
                                   : got \in {g \in GetUser(us1, Len(us1)) : IsSome(g)} }

\* Database::create_handshake when store statement `stmt` is the one that
\* fails: the outcomes are the [users, handshakes] the call leaves behind,
\* none if the call does not reach `stmt`.
CreateHandshakeFailing(us, hs, shake, stmt) ==
    IF stmt = "get_user_by_resonite_id"
    THEN {[users |-> us, handshakes |-> hs]}
    ELSE UNION {
        IF IsSome(byId)
        THEN ResolveFailing(us, hs, byId, shake, stmt)
        ELSE IF stmt = "get_user_by_resonite_name"
             THEN {[users |-> us, handshakes |-> hs]}
             ELSE UNION { ResolveFailing(us, hs, byName, shake, stmt)
                          : byName \in GetUserByResoniteName(us, shake.name) }
        : byId \in GetUserByResoniteId(us, shake.id) }

\* POST /handshakes, served without a failure, within the failure bound.
RecordHandshakeOk ==
    /\ Len(log) < MaxFailCalls
    /\ RecordHandshake

\* POST /handshakes during which one store statement fails.
RecordHandshakeFails ==
    /\ Len(log) < MaxFailCalls
    /\ \E id \in ResoniteIds, name \in ResoniteNames, world \in WorldNames,
          stmt \in Statements :
         \E out \in CreateHandshakeFailing(users, handshakes,
                                           HandshakeContext(id, name, world), stmt) :
            /\ users' = out.users
            /\ handshakes' = out.handshakes
            /\ ret' = Internal(stmt)
            /\ log' = Append(log, Call("create_handshake", id, name, world, <<>>))
            /\ pre' = [users |-> users, handshakes |-> handshakes]
            /\ UNCHANGED <<importer, inflight>>

NextFail == RecordHandshakeOk \/ RecordHandshakeFails

SpecFail == Init /\ [][NextFail]_vars

\* ------------------------------------------------- the import loop, by line
\* What the loop did with one line: both calls succeeded, or
\* create_legacy_user or create_legacy_handshake returned an error that was
\* logged.
LineOutcomes == {"ok", "user_failed", "handshake_failed"}

\* Variant of the loop that returns at the first error, as `?` would.
AfterLine_FailFast(imp, name, outcome) ==
    IF outcome = "ok"
    THEN [imp EXCEPT !.i = imp.i + 1,
                     !.outcomes = Append(imp.outcomes,
                                         [name |-> name, outcome |-> outcome])]
    ELSE [imp EXCEPT !.pc = "failed"]

\* main.rs:101-113  the loop after a line: whatever the outcome, on to the
\* next line.
AfterLine(imp, name, outcome) ==
    [imp EXCEPT !.i = imp.i + 1,
                !.outcomes = Append(imp.outcomes,
                                    [name |-> name, outcome |-> outcome])]

\* main.rs:99  read the file; an error here returns from import.
ImportBegin ==
    /\ importer.pc \in {"idle", "done", "failed"}
    /\ Len(log) < MaxImportRuns
    /\ \E lines \in ImportFiles :
         /\ log' = Append(log, Call("import", "", "", "", lines))
         /\ pre' = [users |-> users, handshakes |-> handshakes]
         /\ \/ /\ importer' = [pc |-> "loop", lines |-> lines, i |-> 1,
                               outcomes |-> <<>>]
               /\ ret' = [status |-> "none", handshake |-> None, count |-> None]
            \/ /\ importer' = [pc |-> "failed", lines |-> lines, i |-> 0,
                               outcomes |-> <<>>]
               /\ ret' = Internal("read_to_string")
    /\ UNCHANGED <<users, handshakes, inflight>>

\* main.rs:101-113  one iteration of the loop.
ImportLine ==
    /\ importer.pc = "loop"
    /\ importer.i <= Len(importer.lines)
    /\ LET name == importer.lines[importer.i]
       IN  \/ /\ importer' = AfterLine(importer, name, "user_failed")
              /\ UNCHANGED <<users, handshakes>>
           \/ \E r \in CreateLegacyUser(users, handshakes, name) :
                /\ users' = r.users
                /\ \/ /\ importer' = AfterLine(importer, name, "handshake_failed")
                      /\ UNCHANGED handshakes
                   \/ /\ importer' = AfterLine(importer, name, "ok")
                      /\ handshakes' =
                           CreateLegacyHandshake(r.users, handshakes, r.user.id)
    /\ UNCHANGED <<log, pre, ret, inflight>>

\* main.rs:115  the loop is over: Ok(()).
ImportEnd ==
    /\ importer.pc = "loop"
    /\ importer.i > Len(importer.lines)
    /\ importer' = [importer EXCEPT !.pc = "done"]
    /\ ret' = OkUnit
    /\ UNCHANGED <<users, handshakes, log, pre, inflight>>

NextImport == ImportBegin \/ ImportLine \/ ImportEnd

SpecImport == Init /\ [][NextImport]_vars

\* ------------------------------------ concurrent calls, statement by statement
\* Requests are served concurrently on the pool; each store statement of
\* Database::create_handshake is one atomic step and nothing else
\* coordinates the calls.
InfoOf(call) == UserResoniteInfo(call.shake.id, call.shake.name)

\* db.rs:161-167 once a lookup returned `found`: the call's next statement.
Matched(call, found, branch) ==
    [call EXCEPT !.user = found,
                 !.branch = branch,
                 !.pc = IF NeedsUpdate(Unwrap(found), InfoOf(call))
                        THEN "update_user" ELSE "insert_handshake"]

\* The store before any request: empty, or as a legacy import left it.
ConcSeed ==
    /\ log = <<>>
    /\ \A c \in DOMAIN inflight : inflight[c].pc = "idle"
    /\ LegacyImport

\* The requests that have arrived so far.
Arrived == {i \in DOMAIN log : log[i].op = "create_handshake"}

\* A request arrives and is given to the first handler that serves none.
ConcBegin ==
    \E c \in DOMAIN inflight :
        /\ inflight[c].pc \in {"idle", "done"}
        /\ \A b \in DOMAIN inflight :
             b < c => inflight[b].pc \notin {"idle", "done"}
        /\ Cardinality(Arrived) < MaxConcCalls
        /\ \E id \in ResoniteIds, name \in ResoniteNames, world \in ConcWorldNames :
             /\ inflight' = [inflight EXCEPT ![c] =
                    [CallIdle EXCEPT !.pc = "get_user_by_resonite_id",
                                     !.shake = HandshakeContext(id, name, world)]]
             /\ log' = Append(log, Call("create_handshake", id, name, world, <<>>))
        /\ UNCHANGED <<users, handshakes, pre, ret, importer>>

\* db.rs:68  get_user_by_resonite_id
ConcLookupId ==
    \E c \in DOMAIN inflight :
        /\ inflight[c].pc = "get_user_by_resonite_id"
        /\ \E byId \in GetUserByResoniteId(users, inflight[c].shake.id) :
             inflight' = [inflight EXCEPT ![c] =
                 IF IsSome(byId) THEN Matched(@, byId, "by_id")
                 ELSE [@ EXCEPT !.pc = "get_user_by_resonite_name"]]
        /\ UNCHANGED <<users, handshakes, log, pre, ret, importer>>

\* db.rs:71  get_user_by_resonite_name
ConcLookupName ==
    \E c \in DOMAIN inflight :
        /\ inflight[c].pc = "get_user_by_resonite_name"
        /\ \E byName \in GetUserByResoniteName(users, inflight[c].shake.name) :
             inflight' = [inflight EXCEPT ![c] =
                 IF IsSome(byName) THEN Matched(@, byName, "by_name")
                 ELSE [@ EXCEPT !.pc = "insert_user", !.branch = "created"]]
        /\ UNCHANGED <<users, handshakes, log, pre, ret, importer>>

\* db.rs:163-165  update_user with the fields read earlier
ConcUpdateUser ==
    \E c \in DOMAIN inflight :
        /\ inflight[c].pc = "update_user"
        /\ LET user == WithResoniteInfo(Unwrap(inflight[c].user), InfoOf(inflight[c]))
           IN  /\ users' = UpdateUser(users, user)
               /\ inflight' = [inflight EXCEPT ![c].user = Some(user),
                                               ![c].pc = "insert_handshake"]
        /\ UNCHANGED <<handshakes, log, pre, ret, importer>>

\* db.rs:97-104  create_user: the INSERT
ConcInsertUser ==
    \E c \in DOMAIN inflight :
        /\ inflight[c].pc = "insert_user"
        /\ users' = InsertUser(users, handshakes,
                               Some(inflight[c].shake.id), inflight[c].shake.name)
        /\ inflight' = [inflight EXCEPT ![c].rowid = Len(users'),
                                        ![c].pc = "get_user"]
        /\ UNCHANGED <<handshakes, log, pre, ret, importer>>

\* db.rs:107-109  create_user: the re-read
ConcGetUser ==
    \E c \in DOMAIN inflight :
        /\ inflight[c].pc = "get_user"
        /\ \E got \in GetUser(users, inflight[c].rowid) :
             /\ IsSome(got)
             /\ inflight' = [inflight EXCEPT ![c].user = got,
                                             ![c].pc = "insert_handshake"]
        /\ UNCHANGED <<users, handshakes, log, pre, ret, importer>>

\* db.rs:173-180  the handshake INSERT
ConcInsertHandshake ==
    \E c \in DOMAIN inflight :
        /\ inflight[c].pc = "insert_handshake"
        /\ handshakes' = InsertHandshake(users, handshakes,
                                         Unwrap(inflight[c].user).id,
                                         Some(inflight[c].shake.world))
        /\ inflight' = [inflight EXCEPT ![c].rowid = Len(handshakes'),
                                        ![c].pc = "get_handshake"]
        /\ UNCHANGED <<users, log, pre, ret, importer>>

\* db.rs:183-185  the handshake re-read; the call returns
ConcGetHandshake ==
    \E c \in DOMAIN inflight :
        /\ inflight[c].pc = "get_handshake"
        /\ \E got \in GetHandshake(handshakes, inflight[c].rowid) :
             /\ IsSome(got)
             /\ inflight' = [inflight EXCEPT ![c].created = got,
                                             ![c].pc = "done"]
        /\ UNCHANGED <<users, handshakes, log, pre, ret, importer>>

NextConc ==
    \/ ConcSeed
    \/ ConcBegin
    \/ ConcLookupId
    \/ ConcLookupName
    \/ ConcUpdateUser
    \/ ConcInsertUser
    \/ ConcGetUser
    \/ ConcInsertHandshake
    \/ ConcGetHandshake

SpecConc == Init /\ [][NextConc]_vars

\* ------------------------------------------------------------ shape of state
TypeOK ==
    /\ \A i \in DOMAIN users :
         /\ users[i].id = i
         /\ users[i].resonite_id \in {None} \cup {Some(r) : r \in ResoniteIds}
         /\ users[i].resonite_name \in ResoniteNames
    /\ \A i \in DOMAIN handshakes :
         /\ handshakes[i].id = i
         /\ handshakes[i].world_name \in {None} \cup {Some(w) : w \in WorldNames}
    /\ Len(log) <= MaxCalls

\* ------------------------------------------------------ reading the history
LastCall == log[Len(log)]

\* The last call was a record_handshake (POST /handshakes) that succeeded.
Recorded ==
    /\ log # <<>>
    /\ LastCall.op = "create_handshake"
    /\ ret.status = "ok"

\* The last call was the lookup-only count query.
Queried == log # <<>> /\ LastCall.op = "count_handshakes_for_user"

\* The handshake the last record_handshake returned.
Returned == Unwrap(ret.handshake)

\* Rows of the table `us` whose stored external ID equals `id`.
MatchById(us, id) == {i \in DOMAIN us : us[i].resonite_id = Some(id)}

\* Rows of the table `us` whose stored display name equals `name`.
MatchByName(us, name) == {i \in DOMAIN us : us[i].resonite_name = name}

\* Every call so far was a record_handshake.
OnlyRecorded == \A i \in DOMAIN log : log[i].op = "create_handshake"

\* `old` is a prefix of `new`.
IsPrefix(old, new) ==
    /\ Len(old) <= Len(new)
    /\ \A i \in DOMAIN old : new[i] = old[i]

\* ---------------------------------------------------------------------- C1
\* C1: first contact.  When record_handshake is called on a store where no
\* user matches the inbound external_id and none matches the inbound
\* display_name, exactly one User is added, carrying the inbound external_id
\* and display_name, every other row is left as it was, and exactly one
\* Handshake referencing the new user is added; on an empty store
\* count_users() and count_handshakes() are then both 1.
C1_FirstContact ==
    ( /\ Recorded
      /\ MatchById(pre.users, LastCall.id) = {}
      /\ MatchByName(pre.users, LastCall.name) = {} )
    => /\ Len(users) = Len(pre.users) + 1
       /\ IsPrefix(pre.users, users)
       /\ users[Len(users)].resonite_id = Some(LastCall.id)
       /\ users[Len(users)].resonite_name = LastCall.name
       /\ Len(handshakes) = Len(pre.handshakes) + 1
       /\ IsPrefix(pre.handshakes, handshakes)
       /\ handshakes[Len(handshakes)].user_id = users[Len(users)].id
       /\ Returned = handshakes[Len(handshakes)]
       /\ (pre.users = <<>> /\ pre.handshakes = <<>>
             => CountUsers(users) = 1 /\ CountHandshakes(handshakes) = 1)

\* A first contact on a store that already holds another user.
C1_Witness ==
    /\ Recorded
    /\ pre.users # <<>>
    /\ MatchById(pre.users, LastCall.id) = {}
    /\ MatchByName(pre.users, LastCall.name) = {}
    /\ LastCall.id # ""

C3_SelfHealing ==
    ( /\ Len(log) = 2
      /\ OnlyRecorded
      /\ log[1].id = ""
      /\ log[2].id # ""
      /\ log[1].name = log[2].name )
    => /\ CountUsers(users) = 1
       /\ users[1].id = pre.users[1].id
       /\ users[1].resonite_id = Some(log[2].id)
       /\ CountHandshakes(handshakes) = 2
       /\ \A i \in DOMAIN handshakes : handshakes[i].user_id = users[1].id

\* ---------------------------------------------------------------------- C4
\* C4: an empty external_id is never used for the ID lookup.  A
\* record_handshake or a count query whose external_id is empty resolves by
\* display_name only: it leaves every stored user whose display_name differs
\* from the inbound one unmodified and never resolves to such a user; and two
\* record_handshake calls with empty external_id and two different names on
\* an empty store produce two distinct Users.
C4_EmptyIdNotLookedUp ==
    /\ ( /\ log # <<>>
         /\ LastCall.op \in {"create_handshake", "count_handshakes_for_user"}
         /\ LastCall.id = "" )
       => /\ \A i \in DOMAIN pre.users :
               pre.users[i].resonite_name # LastCall.name
               => /\ users[i] = pre.users[i]
                  /\ Recorded => Returned.user_id # i
          /\ (Queried /\ MatchByName(pre.users, LastCall.name) = {})
               => ret = NotFound
    /\ ( /\ Len(log) = 2
         /\ OnlyRecorded
         /\ log[1].id = "" /\ log[2].id = ""
         /\ log[1].name # log[2].name )
       => /\ CountUsers(users) = 2
          /\ users[1].id # users[2].id

\* ---------------------------------------------------------------------- C5
\* C5: from an empty store, N successive record_handshake calls that all
\* carry an empty external_id and the same display name create exactly one
\* User, and all N Handshakes reference it.
C5_NameOnlyRepeats ==
    ( /\ log # <<>>
      /\ OnlyRecorded
      /\ \A i \in DOMAIN log : log[i].id = "" /\ log[i].name = log[1].name )
    => /\ CountUsers(users) = 1
       /\ CountHandshakes(handshakes) = Len(log)
       /\ \A i \in DOMAIN handshakes : handshakes[i].user_id = users[1].id
       /\ CountUserHandshakes(handshakes, users[1].id) = Len(log)

\* Three such calls were made.
C5_Witness ==
    /\ Len(log) >= 3
    /\ OnlyRecorded
    /\ \A i \in DOMAIN log : log[i].id = "" /\ log[i].name = log[1].name
    /\ CountUsers(users) = 1

\* ---------------------------------------------------------------------- C6
\* C6: external_id is authoritative once set.  In a sequence of completed
\* calls, a User row that held a present (non-NULL) external_id before a
\* call holds the same external_id after it.
C6_ExternalIdAuthoritative ==
    \A i \in DOMAIN pre.users :
        IsSome(pre.users[i].resonite_id)
        => users[i].resonite_id = pre.users[i].resonite_id

\* A record_handshake resolved, by name, to a user whose stored external_id
\* is present and differs from the inbound one.
C6_Witness ==
    /\ Recorded
    /\ Returned.user_id \in DOMAIN pre.users
    /\ IsSome(pre.users[Returned.user_id].resonite_id)
    /\ pre.users[Returned.user_id].resonite_id # Some(LastCall.id)
    /\ LastCall.id # ""

\* ---------------------------------------------------------------------- C7
\* C7: display_name is always refreshed.  After every successful
\* record_handshake(external_id, display_name, _) the stored User that the
\* returned Handshake references has display_name equal to the inbound one,
\* whether it was matched by ID, matched by name or newly created.
C7_DisplayNameRefreshed ==
    Recorded
    => /\ Returned.user_id \in DOMAIN users
       /\ users[Returned.user_id].resonite_name = LastCall.name

\* A record_handshake matched a user by ID whose stored name was another.
C7_Witness ==
    /\ Recorded
    /\ Returned.user_id \in MatchById(pre.users, LastCall.id)
    /\ pre.users[Returned.user_id].resonite_name # LastCall.name
    /\ users[Returned.user_id].resonite_name = LastCall.name

\* ---------------------------------------------------------------------- C8
\* The stored users the inbound name matches and the inbound ID does not.
NameOnlyMatches(us, call) ==
    MatchByName(us, call.name) \ MatchById(us, call.id)

\* C8: ID wins silently.  When the inbound external_id matches stored user A
\* and the inbound display_name matches a different stored user B,
\* record_handshake succeeds, the new Handshake references A, B's row and
\* B's handshake count are unchanged, and no row is added or removed.
C8_IdWinsSilently ==
    ( /\ Recorded
      /\ MatchById(pre.users, LastCall.id) # {}
      /\ NameOnlyMatches(pre.users, LastCall) # {} )
    => /\ ret.status = "ok"
       /\ Returned.user_id \in MatchById(pre.users, LastCall.id)
       /\ handshakes[Len(handshakes)].user_id = Returned.user_id
       /\ \A b \in NameOnlyMatches(pre.users, LastCall) :
            /\ users[b] = pre.users[b]
            /\ CountUserHandshakes(handshakes, b)
                 = CountUserHandshakes(pre.handshakes, b)
       /\ CountUsers(users) = CountUsers(pre.users)

\* A call whose ID matches one stored user and whose name matches another.
C8_Witness ==
    /\ Recorded
    /\ MatchById(pre.users, LastCall.id) # {}
    /\ NameOnlyMatches(pre.users, LastCall) # {}
    /\ LastCall.id # ""

\* ---------------------------------------------------------------------- C9
\* The ids the ID-first-then-name rule can resolve a call to in table `us`.
Resolves(us, call) ==
    IF MatchById(us, call.id) # {} THEN MatchById(us, call.id)
    ELSE MatchByName(us, call.name)

\* C9: the per-user handshake count is 0 for a user with no handshakes and
\* grows by exactly 1 with each successful record_handshake that resolves to
\* that user (the matched user, or the new one when none matches); the same
\* call leaves every other user's count unchanged and grows
\* count_handshakes() by exactly 1.
C9_CountsPerUser ==
    Recorded
    => \E u \in (IF Resolves(pre.users, LastCall) # {}
                 THEN Resolves(pre.users, LastCall)
                 ELSE {Len(pre.users) + 1}) :
         /\ u \in DOMAIN users
         /\ u \notin DOMAIN pre.users
              => CountUserHandshakes(pre.handshakes, u) = 0
         /\ CountUserHandshakes(handshakes, u)
              = CountUserHandshakes(pre.handshakes, u) + 1
         /\ \A o \in DOMAIN users \ {u} :
              CountUserHandshakes(handshakes, o)
                = CountUserHandshakes(pre.handshakes, o)
         /\ CountHandshakes(handshakes) = CountHandshakes(pre.handshakes) + 1

\* A call resolved to a user that already had a handshake, while another
\* user with handshakes of its own was stored.
C9_Witness ==
    /\ Recorded
    /\ Returned.user_id \in DOMAIN pre.users
    /\ CountUserHandshakes(handshakes, Returned.user_id) >= 2
    /\ \E o \in DOMAIN users \ {Returned.user_id} :
         CountUserHandshakes(handshakes, o) >= 1

\* --------------------------------------------------------------------- C10
\* C10: the lookup-only query count_handshakes_for_user(external_id,
\* display_name) returns NotFound exactly when no stored user matches the
\* external_id and none matches the display_name; otherwise it returns the
\* handshake count of a user chosen by the ID-first-then-name rule; either
\* way both tables are left exactly as they were.
C10_LookupOnly ==
    Queried
    => /\ users = pre.users
       /\ handshakes = pre.handshakes
       /\ ret = NotFound
            <=> ( /\ MatchById(users, LastCall.id) = {}
                  /\ MatchByName(users, LastCall.name) = {} )
       /\ ret # NotFound
            => \E u \in Resolves(users, LastCall) :
                 ret = OkCount(CountUserHandshakes(handshakes, u))

\* The query found no user in a store that holds users.
C10_Witness ==
    /\ Queried
    /\ ret = NotFound
    /\ users # <<>>

\* --------------------------------------------------------------------- C11
\* C11: round trip.  The Handshake a successful record_handshake returns is
\* the row it just inserted: its id is non-zero and differs from the id of
\* every handshake stored before, its user_id is the id of the user the call
\* resolved to or created, and its world_name is the inbound one verbatim.
C11_RoundTrip ==
    Recorded
    => /\ Returned = handshakes[Len(handshakes)]
       /\ Len(handshakes) = Len(pre.handshakes) + 1
       /\ Returned.id # 0
       /\ \A i \in DOMAIN pre.handshakes : pre.handshakes[i].id # Returned.id
       /\ Returned.user_id \in
            (IF Resolves(pre.users, LastCall) # {}
             THEN Resolves(pre.users, LastCall)
             ELSE {Len(pre.users) + 1})
       /\ Returned.user_id = users[Returned.user_id].id
       /\ Returned.world_name = Some(LastCall.world)
       /\ Returned.created_at > 0

\* A handshake was returned for a user that had handshakes before, in a
\* world with a name.
C11_Witness ==
    /\ Recorded
    /\ pre.handshakes # <<>>
    /\ Returned.user_id \in DOMAIN pre.users
    /\ CountUserHandshakes(pre.handshakes, Returned.user_id) >= 1
    /\ LastCall.world # ""

\* --------------------------------------------------------------------- C12
\* C12: append-only store.  No call removes a User or a Handshake row or
\* modifies an existing Handshake row, and a User's id and created_at never
\* change: only external_id and display_name of an existing User row may.
\* Hence count_users() and count_handshakes() never decrease.
C12_AppendOnly ==
    /\ IsPrefix(pre.handshakes, handshakes)
    /\ Len(pre.users) <= Len(users)
    /\ \A i \in DOMAIN pre.users :
         /\ users[i].id = pre.users[i].id
         /\ users[i].created_at = pre.users[i].created_at
    /\ CountUsers(users) >= CountUsers(pre.users)
    /\ CountHandshakes(handshakes) >= CountHandshakes(pre.handshakes)

\* A call rewrote the external_id of an existing user row, in a store with
\* handshakes, and added a handshake.
C12_Witness ==
    /\ Recorded
    /\ pre.handshakes # <<>>
    /\ Len(handshakes) > Len(pre.handshakes)
    /\ \E i \in DOMAIN pre.users :
         users[i].resonite_id # pre.users[i].resonite_id

\* --------------------------------------------------------------------- C17
\* C17: in a sequential execution that starts from a store in which no two
\* users share an external_id, no reachable state has two User rows with
\* the same present (non-NULL) external_id.
C17_ExternalIdUnique ==
    \A i, j \in DOMAIN users :
        (i # j /\ IsSome(users[i].resonite_id))
        => users[i].resonite_id # users[j].resonite_id

\* Two users with different external IDs are stored, after a call that
\* carried the external ID of one of them and a new name.
C17_Witness ==
    /\ Recorded
    /\ \E i, j \in DOMAIN users :
         /\ i # j
         /\ IsSome(users[i].resonite_id)
         /\ IsSome(users[j].resonite_id)
    /\ \E i \in MatchById(pre.users, LastCall.id) :
         pre.users[i].resonite_name # LastCall.name

\* --------------------------------------------------------------------- C18
\* C18: stable attribution.  In a sequential execution, once a User row u
\* holds a non-empty external_id e, a successful record_handshake carrying e
\* returns a Handshake whose user_id is u.id, whatever display_name it
\* carries and whatever other users are stored; u keeps e, and no second
\* user with external_id e is created.
C18_StableAttribution ==
    ( /\ Recorded
      /\ LastCall.id # "" )
    => \A u \in MatchById(pre.users, LastCall.id) :
         /\ Returned.user_id = pre.users[u].id
         /\ users[u].resonite_id = Some(LastCall.id)
         /\ MatchById(users, LastCall.id) = {u}
         /\ CountUsers(users) = CountUsers(pre.users)

\* A call carried the external ID of one stored user and the display name
\* of another.
C18_Witness ==
    /\ Recorded
    /\ LastCall.id # ""
    /\ MatchById(pre.users, LastCall.id) # {}
    /\ NameOnlyMatches(pre.users, LastCall) # {}
    /\ Returned.user_id \in MatchById(pre.users, LastCall.id)

\* --------------------------------------------------------------------- C19
\* The last call was a record_handshake that returned an error.
Failed ==
    /\ log # <<>>
    /\ LastCall.op = "create_handshake"
    /\ ret.status = "error"

\* The statements that run before the call has written anything, and the
\* two writes of the user, whose failure writes nothing.
BeforeAnyWrite ==
    {"get_user_by_resonite_id", "get_user_by_resonite_name",
     "update_user", "insert_user"}

\* The user rows are those of `pre` with at most the row the call resolved
\* to rewritten to the inbound pair, or with one row of the inbound pair
\* appended.
UserWriteOnly ==
    \/ /\ Len(users) = Len(pre.users)
       /\ \E u \in DOMAIN users \cup {0} :
            /\ \A i \in DOMAIN users \ {u} : users[i] = pre.users[i]
            /\ u # 0 => /\ u \in Resolves(pre.users, LastCall)
                        /\ users[u].resonite_id = Some(LastCall.id)
                        /\ users[u].resonite_name = LastCall.name
    \/ /\ Len(users) = Len(pre.users) + 1
       /\ IsPrefix(pre.users, users)
       /\ Resolves(pre.users, LastCall) = {}
       /\ users[Len(users)].resonite_id = Some(LastCall.id)
       /\ users[Len(users)].resonite_name = LastCall.name

\* C19 as claimed: a record_handshake call that returns an error, whichever
\* store statement failed, leaves both tables as they were before the call.
C19_ErrorLeavesStore ==
    Failed => /\ users = pre.users
              /\ handshakes = pre.handshakes

\* C19 as amended: a record_handshake call that returns an error because the
\* ID lookup, the name lookup, the user update or the user insert failed
\* leaves both tables as they were.  When a later statement fails, what the
\* completed statements wrote stays: after a failed user re-read or
\* handshake insert the user row the call created or rewrote, and no new
\* handshake; after a failed handshake re-read also the inserted Handshake,
\* which references the resolved user and carries the inbound world_name.
\* No other row is created, modified or removed.
C19_ErrorKeepsCompletedWrites ==
    Failed
    => /\ ret.stmt \in BeforeAnyWrite
            => users = pre.users /\ handshakes = pre.handshakes
       /\ ret.stmt \in {"get_user", "insert_handshake"}
            => UserWriteOnly /\ handshakes = pre.handshakes
       /\ ret.stmt = "get_user"
            => Len(users) = Len(pre.users) + 1
       /\ ret.stmt = "get_handshake"
            => /\ UserWriteOnly
               /\ Len(handshakes) = Len(pre.handshakes) + 1
               /\ IsPrefix(pre.handshakes, handshakes)
               /\ handshakes[Len(handshakes)].world_name = Some(LastCall.world)
               /\ handshakes[Len(handshakes)].user_id \in
                    (IF Resolves(pre.users, LastCall) # {}
                     THEN Resolves(pre.users, LastCall)
                     ELSE {Len(users)})

\* The handshake insert failed after the call had rewritten a stored user.
C19_Witness ==
    /\ Failed
    /\ ret.stmt = "insert_handshake"
    /\ Len(users) = Len(pre.users)
    /\ users # pre.users
    /\ handshakes = pre.handshakes

\* --------------------------------------------------------------------- C14
\* C14: legacy import is fail-open.  For a file of k names every name is
\* attempted, in order, as an operation of its own: an error creating the
\* user or the handshake of one name does not stop the names after it, each
\* name whose two calls succeed gets its handshake, and the import returns
\* Ok once all k names have been attempted.
C14_ImportFailOpen ==
    /\ importer.pc \in {"loop", "done"}
         => /\ importer.i = Len(importer.outcomes) + 1
            /\ Len(importer.outcomes) <= Len(importer.lines)
            /\ \A k \in DOMAIN importer.outcomes :
                 importer.outcomes[k].name = importer.lines[k]
            /\ Len(handshakes) - Len(pre.handshakes)
                 = Cardinality({k \in DOMAIN importer.outcomes :
                                  importer.outcomes[k].outcome = "ok"})
            /\ IsPrefix(pre.handshakes, handshakes)
            /\ \A k \in DOMAIN importer.outcomes :
                 importer.outcomes[k].outcome # "user_failed"
                 => MatchByName(users, importer.lines[k]) # {}
    /\ (importer.pc = "loop" /\ importer.i <= Len(importer.lines))
         => ENABLED ImportLine
    /\ importer.pc = "done"
         => /\ Len(importer.outcomes) = Len(importer.lines)
            /\ ret = OkUnit
            /\ (\A k \in DOMAIN importer.outcomes :
                  importer.outcomes[k].outcome = "ok")
                 => [users |-> users, handshakes |-> handshakes]
                      \in Import(pre.users, pre.handshakes, importer.lines)
    /\ importer.pc = "failed" => importer.outcomes = <<>>

\* An import finished although its first name failed, and imported the
\* name after it.
C14_Witness ==
    /\ importer.pc = "done"
    /\ Len(importer.lines) >= 2
    /\ importer.outcomes[1].outcome # "ok"
    /\ importer.outcomes[2].outcome = "ok"
    /\ Len(handshakes) = Len(pre.handshakes) + 1
    /\ ret = OkUnit

\* --------------------------------------------------------------------- C13
\* The call in handler c took the create arm and has inserted its user.
InsertedUser(c) ==
    /\ inflight[c].branch = "created"
    /\ inflight[c].pc \in {"get_user", "insert_handshake", "get_handshake", "done"}

\* C13: resolve-or-create is not atomic.  With the lookups, the user
\* update/insert and the handshake insert as separate atomic store
\* statements, two overlapping record_handshake calls that carry the same
\* external_id and both find no user for it both insert one: once both
\* inserts are done, two distinct User rows hold that external_id.  (The
\* interleaving exists: C13_Witness is reached.)
C13_RaceCreatesTwoUsers ==
    \A c, d \in DOMAIN inflight :
        ( /\ c # d
          /\ InsertedUser(c)
          /\ InsertedUser(d)
          /\ inflight[c].shake.id = inflight[d].shake.id )
        => \E i, j \in MatchById(users, inflight[c].shake.id) :
             /\ i # j
             /\ users[i].id # users[j].id

\* Two overlapping first contacts with the same new, non-empty external_id
\* have both returned, and two User rows hold that external_id.
C13_Witness ==
    /\ \A c \in DOMAIN inflight : inflight[c].pc = "done"
    /\ \E c, d \in DOMAIN inflight :
         /\ c # d
         /\ inflight[c].shake.id = inflight[d].shake.id
         /\ inflight[c].shake.id # ""
         /\ inflight[c].branch = "created"
         /\ inflight[d].branch = "created"
         /\ Cardinality(MatchById(users, inflight[c].shake.id)) = 2
         /\ Unwrap(inflight[c].created).user_id # Unwrap(inflight[d].created).user_id

\* --------------------------------------------------------------------- C15
\* Sum of count_user_handshakes over the users 1..n.
RECURSIVE SumUserHandshakes(_, _)
SumUserHandshakes(hs, n) ==
    IF n = 0 THEN 0
    ELSE CountUserHandshakes(hs, n) + SumUserHandshakes(hs, n - 1)

\* C15: referential integrity.  In every reachable state, the states between
\* the statements of overlapping record_handshake calls included, each
\* Handshake row's user_id is the id of exactly one User row, so
\* count_handshakes() is the sum of the per-user counts over all users.
C15_ReferentialIntegrity ==
    /\ \A h \in DOMAIN handshakes :
         Cardinality({i \in DOMAIN users : users[i].id = handshakes[h].user_id}) = 1
    /\ CountHandshakes(handshakes) = SumUserHandshakes(handshakes, CountUsers(users))

\* Two calls overlap, one has inserted its handshake and the other has
\* inserted a user that has no handshake yet.
C15_Witness ==
    \E c, d \in DOMAIN inflight :
        /\ c # d
        /\ inflight[c].pc \in {"get_handshake", "done"}
        /\ inflight[d].pc \in {"get_user", "insert_handshake"}
        /\ inflight[d].branch = "created"
        /\ handshakes # <<>>
        /\ \E u \in DOMAIN users : CountUserHandshakes(handshakes, u) = 0

\* --------------------------------------------------------------------- C16
\* C16: under concurrent interleaving of record_handshake calls, with users
\* whose external_id is absent allowed in the store, no step replaces a User
\* row's present external_id by a different value.  Stated for a present
\* external_id that is not the empty string either, so that the empty ID of
\* C3 and C4 plays no part.
C16_NoOverwriteUnderRace ==
    [][ \A i \in DOMAIN users :
          ( /\ IsSome(users[i].resonite_id)
            /\ users[i].resonite_id # Some("") )
          => users'[i].resonite_id = users[i].resonite_id ]_vars

====
